---- MODULE Spec2Model ----
(***************************************************************************)
(* A model of TravelokaScraper (src/app.py): the request builder, the      *)
(* transport/retry loop of _make_request with its rate limiting, and the   *)
(* envelope that scrape returns; the authentication token; the walk of     *)
(* _extract_rates over a response with _normalize_rate on every entry; and *)
(* the deep link.                                                          *)
(*                                                                         *)
(* Time is kept as ages: how long ago, on the clock time.time() reads, the *)
(* events the code and the claims measure from happened.  An age stops     *)
(* growing at AgeCap, since the code only compares it with REQUEST_DELAY.  *)
(* Python strings are sequences of one-character strings; Python's None is *)
(* the record PyNone.                                                      *)
(***************************************************************************)
EXTENDS Integers, Sequences, FiniteSets, TLC

\* ------------------------------------------------------------------ bounds
MaxDuration == 1     \* longest time a request that does not time out takes
MaxRooms == 2        \* most rooms of a generated response
MaxRates == 2        \* most rate entries of a room of a generated response

\* ------------------------------------------- TravelokaConfig (app.py 60-63)
REQUEST_DELAY == 3
TIMEOUT == 30
MAX_RETRIES == 3
RETRY_DELAY == 5

\* --------------------------------------------------------------- Python values
PyNone == [type |-> "NoneType"]
\* JSON values as Python holds them. A str is its sequence of characters; a
\* dict is its items with its keys; a list is its items with its length.
Str(s) == [type |-> "str", value |-> s]
Num(n) == [type |-> "int", value |-> n]
Dict(f) == [type |-> "dict", keys |-> DOMAIN f, items |-> f]
List(seq) == [type |-> "list", len |-> Len(seq), items |-> seq]
IsDict(v) == v.type = "dict"
\* d.get(key, default), for a dict d.
Get(d, key, default) == IF key \in d.keys THEN d.items[key] ELSE default
NoTime == 0 - 1

\* Python truthiness, as `if not response_data` (app.py 562) evaluates it.
Truthy(v) ==
    CASE v.type = "NoneType" -> FALSE
      [] v.type = "str" -> v.value # <<>>
      [] v.type = "int" -> v.value # 0
      [] v.type = "dict" -> v.keys # {}
      [] v.type = "list" -> v.len > 0
      [] OTHER -> TRUE

\* ------------------------------------------------------------ normalization
Upper == <<"A", "B", "C", "D", "E", "F", "G", "H", "I", "J", "K", "L", "M", "N", "O", "P", "Q", "R", "S", "T", "U", "V", "W", "X", "Y", "Z">>
LowerCase == <<"a", "b", "c", "d", "e", "f", "g", "h", "i", "j", "k", "l", "m", "n", "o", "p", "q", "r", "s", "t", "u", "v", "w", "x", "y", "z">>
LowerChar(c) ==
    IF \E i \in 1..26 : Upper[i] = c
    THEN LowerCase[CHOOSE i \in 1..26 : Upper[i] = c]
    ELSE c
\* str.lower(), for a string of ASCII characters.
SameCase(s) == s
Lower(s) == IF s = <<>> THEN <<>> ELSE [i \in 1..Len(s) |-> LowerChar(s[i])]

\* The string literals of _normalize_rate.
FREE_BREAKFAST == <<"f", "r", "e", "e", "_", "b", "r", "e", "a", "k", "f", "a", "s", "t">>
CANCELLATION == <<"c", "a", "n", "c", "e", "l", "l", "a", "t", "i", "o", "n">>
NOT_SPECIFIED == <<"N", "o", "t", " ", "s", "p", "e", "c", "i", "f", "i", "e", "d">>
INCLUDED == <<"I", "n", "c", "l", "u", "d", "e", "d">>
NOT_INCLUDED == <<"N", "o", "t", " ", "i", "n", "c", "l", "u", "d", "e", "d">>
THB == <<"T", "H", "B">>

\* What an expression gave: a value, or an exception.
Raised == [raised |-> TRUE, value |-> PyNone]
Value(v) == [raised |-> FALSE, value |-> v]

\* The price fields, each with the default the code gives it.
PriceData(rate_data) == Get(rate_data, "price", Dict(<<>>))
NetPrice(price_data) == Get(price_data, "netPrice", Num(0))
NetPricePerNight(price_data) ==
    Get(price_data, "netPricePerNight", NetPrice(price_data))
ShownPriceViaPerNight(price_data) ==
    Get(price_data, "shownPrice",
        Get(price_data, "shownPricePerNight", NetPrice(price_data)))
ShownPrice(price_data) == Get(price_data, "shownPrice", NetPrice(price_data))
ShownPricePerNight(price_data) ==
    Get(price_data, "shownPricePerNight", ShownPrice(price_data))
TotalPrice(price_data) == Get(price_data, "totalPrice", ShownPrice(price_data))
TotalPricePerNight(price_data) ==
    Get(price_data, "totalPricePerNight", TotalPrice(price_data))
TaxesData(price_data) == Get(price_data, "taxes", Dict(<<>>))
TotalTaxes(taxes_data) == Get(taxes_data, "totalTaxAmount", Num(0))

\* `shown_price < net_price`: TypeError unless both are numbers (the prices of
\* the inputs are numbers or null).
Comparable(a, b) == a.type = "int" /\ b.type = "int"
LessOrEqual(a, b) == a.value <= b.value
Less(a, b) == a.value < b.value

\* any(inc.get("id", "").lower() == "free_breakfast" for inc in includes):
\* "yes", "no", or "raise" when an entry met before a match has no get or its
\* id has no lower. The includes of the inputs are lists or null.
RECURSIVE AnyFreeBreakfast(_)
AnyFreeBreakfast(items) ==
    IF items = <<>> THEN "no"
    ELSE LET inc == Head(items)
         IN  IF ~IsDict(inc) THEN "raise"
             ELSE LET id == Get(inc, "id", Str(<<>>))
                  IN  IF id.type # "str" THEN "raise"
                      ELSE IF Lower(id.value) = FREE_BREAKFAST THEN "yes"
                      ELSE AnyFreeBreakfast(Tail(items))
BreakfastIncluded(rate_data) ==
    LET includes == Get(rate_data, "includes", List(<<>>))
    IN  IF includes.type # "list" THEN "raise" ELSE AnyFreeBreakfast(includes.items)

\* next((p.get("description", "") for p in policies
\*       if p.get("type", "").lower() == "cancellation"), "Not specified")
RECURSIVE LastCancellation(_)
LastCancellation(items) ==
    IF items = <<>> THEN Value(Str(NOT_SPECIFIED))
    ELSE LET p == items[Len(items)]
         IN  IF ~IsDict(p) THEN Raised
             ELSE LET type == Get(p, "type", Str(<<>>))
                  IN  IF type.type # "str" THEN Raised
                      ELSE IF Lower(type.value) = CANCELLATION
                      THEN Value(Get(p, "description", Str(<<>>)))
                      ELSE LastCancellation(SubSeq(items, 1, Len(items) - 1))
RECURSIVE FirstCancellation(_)
FirstCancellation(items) ==
    IF items = <<>> THEN Value(Str(NOT_SPECIFIED))
    ELSE LET p == Head(items)
         IN  IF ~IsDict(p) THEN Raised
             ELSE LET type == Get(p, "type", Str(<<>>))
                  IN  IF type.type # "str" THEN Raised
                      ELSE IF Lower(type.value) = CANCELLATION
                      THEN Value(Get(p, "description", Str(<<>>)))
                      ELSE FirstCancellation(Tail(items))
CancellationPolicy(rate_data) ==
    LET policies == Get(rate_data, "policies", List(<<>>))
    IN  IF policies.type # "list" THEN Raised ELSE FirstCancellation(policies.items)

\* occupancy.get("numAdults", 0) + occupancy.get("numChildren", 0); the counts
\* of the inputs are numbers or null.
NumGuests(rate_data) ==
    LET occupancy == Get(rate_data, "occupancy", Dict(<<>>))
    IN  IF ~IsDict(occupancy) THEN Raised
        ELSE LET adults == Get(occupancy, "numAdults", Num(0))
                 children == Get(occupancy, "numChildren", Num(0))
             IN  IF adults.type # "int" \/ children.type # "int" THEN Raised
                 ELSE Value(Num(adults.value + children.value))

\* An exception inside the try of _normalize_rate.
NormalizeRaises(rate_data) ==
    IF ~IsDict(rate_data) THEN TRUE
    ELSE IF ~IsDict(PriceData(rate_data)) THEN TRUE
    ELSE IF ~IsDict(TaxesData(PriceData(rate_data))) THEN TRUE
    ELSE IF ~Comparable(ShownPrice(PriceData(rate_data)),
                        NetPrice(PriceData(rate_data))) THEN TRUE
    ELSE IF BreakfastIncluded(rate_data) = "raise" THEN TRUE
    ELSE IF CancellationPolicy(rate_data).raised THEN TRUE
    ELSE NumGuests(rate_data).raised

\* The dict _normalize_rate builds when nothing raises.
Normalized(room_name, rate_data) ==
    LET price_data == PriceData(rate_data)
        net_price == NetPrice(price_data)
        shown_price == ShownPrice(price_data)
        normalized ==
            [room_name |-> room_name,
             rate_name |-> Get(rate_data, "name", Str(<<>>)),
             number_of_guests |-> NumGuests(rate_data).value,
             cancellation_policy |-> CancellationPolicy(rate_data).value,
             breakfast |-> IF BreakfastIncluded(rate_data) = "yes"
                           THEN Str(INCLUDED) ELSE Str(NOT_INCLUDED),
             currency |-> Get(rate_data, "currency", Str(THB)),
             total_taxes |-> TotalTaxes(TaxesData(price_data)),
             price |-> shown_price,
             total_price |-> TotalPrice(price_data)]
        with_original ==
            IF Less(shown_price, net_price)
            THEN normalized @@ [original_price |-> net_price]
            ELSE normalized
    IN  IF Truthy(ShownPricePerNight(price_data))
        THEN with_original @@
             [shown_price_per_stay |-> ShownPricePerNight(price_data),
              net_price_per_stay |-> NetPricePerNight(price_data),
              total_price_per_stay |-> TotalPricePerNight(price_data)]
        ELSE with_original

\* _normalize_rate: the dict, or None after the except clause.
NormalizeRate(room_name, rate_data) ==
    IF NormalizeRaises(rate_data) THEN PyNone ELSE Normalized(room_name, rate_data)

\* `if normalized_rate:` - None is falsy, the dict never is.
KeptAlways(normalized_rate) == TRUE
KeptIfDiscounted(normalized_rate) ==
    normalized_rate # PyNone /\ "original_price" \in DOMAIN normalized_rate
Kept(normalized_rate) == normalized_rate # PyNone

\* _extract_rates: response_data.get("data", {}).get("rooms", []), then for
\* every room its name and its rates; an exception outside _normalize_rate
\* gives the empty list.
\* `for x in v`: a list gives its items, a str its characters, a dict its
\* keys; any other value raises TypeError.
Iterable(v) == v.type \in {"list", "str", "dict"}
RECURSIVE KeysOf(_)
KeysOf(keys) ==
    IF keys = {} THEN <<>>
    ELSE LET k == CHOOSE k \in keys : TRUE
         IN  <<Str(<<k>>)>> \o KeysOf(keys \ {k})
Iterate(v) ==
    CASE v.type = "list" -> v.items
      [] v.type = "str" -> [i \in 1..Len(v.value) |-> Str(<<v.value[i]>>)]
      [] v.type = "dict" -> KeysOf(v.keys)
RoomsRaises(response_data) ==
    IF ~IsDict(response_data) THEN TRUE
    ELSE IF ~IsDict(Get(response_data, "data", Dict(<<>>))) THEN TRUE
    ELSE ~Iterable(Get(Get(response_data, "data", Dict(<<>>)), "rooms", List(<<>>)))
RoomsOf(response_data) ==
    Iterate(Get(Get(response_data, "data", Dict(<<>>)), "rooms", List(<<>>)))
RoomRaises(room) ==
    IF ~IsDict(room) THEN TRUE ELSE ~Iterable(Get(room, "rates", List(<<>>)))
RoomName(room) == Get(room, "name", Str(<<>>))
RateList(room) == Iterate(Get(room, "rates", List(<<>>)))
RECURSIVE NormalizeAll(_, _)
NormalizeAll(room_name, rate_list) ==
    IF rate_list = <<>> THEN <<>>
    ELSE LET normalized_rate == NormalizeRate(room_name, Head(rate_list))
         IN  (IF Kept(normalized_rate) THEN <<normalized_rate>> ELSE <<>>)
             \o NormalizeAll(room_name, Tail(rate_list))
RECURSIVE WalkRooms(_)
WalkRooms(rooms) ==
    IF rooms = <<>> THEN Value(<<>>)
    ELSE IF RoomRaises(Head(rooms)) THEN Raised
    ELSE LET rest == WalkRooms(Tail(rooms))
         IN  IF rest.raised THEN Raised
             ELSE Value(NormalizeAll(RoomName(Head(rooms)), RateList(Head(rooms)))
                        \o rest.value)
RECURSIVE WalkRoomsUntil(_)
WalkRoomsUntil(rooms) ==
    IF rooms = <<>> THEN <<>>
    ELSE IF RoomRaises(Head(rooms)) THEN <<>>
    ELSE NormalizeAll(RoomName(Head(rooms)), RateList(Head(rooms)))
         \o WalkRoomsUntil(Tail(rooms))
ExtractRatesKeeping(response_data) ==
    IF RoomsRaises(response_data) THEN <<>>
    ELSE WalkRoomsUntil(RoomsOf(response_data))
ExtractRates(response_data) ==
    IF RoomsRaises(response_data) THEN <<>>
    ELSE IF WalkRooms(RoomsOf(response_data)).raised THEN <<>>
    ELSE WalkRooms(RoomsOf(response_data)).value

\* ------------------------------------------------------- response documents
\* Rate entries of a response: one with every field, and that one with a
\* field changed or taken away.
Deluxe == <<"D", "e", "l", "u", "x", "e">>
Suite == <<"S", "u", "i", "t", "e">>
Flex == <<"F", "l", "e", "x">>
USD == <<"U", "S", "D">>
FreeCancel == <<"F", "r", "e", "e">>
NonRefundable == <<"N", "o", "n", "e">>
Inc(id) == Dict([id |-> Str(id)])
Policy(type, description) == Dict([type |-> Str(type), description |-> Str(description)])
Prices(net, shown, total) ==
    Dict([netPrice |-> net, shownPrice |-> shown, totalPrice |-> total])
With(f, key, v) == [k \in DOMAIN f \cup {key} |-> IF k = key THEN v ELSE f[k]]
Without(f, key) == [k \in DOMAIN f \ {key} |-> f[k]]

BaseFields ==
    [name |-> Str(Flex),
     price |-> Prices(Num(120), Num(100), Num(130)),
     includes |-> List(<<Inc(FREE_BREAKFAST)>>),
     policies |-> List(<<Policy(CANCELLATION, FreeCancel)>>),
     occupancy |-> Dict([numAdults |-> Num(2), numChildren |-> Num(1)]),
     currency |-> Str(USD)]
PriceValues ==
    {Prices(Num(120), Num(100), Num(130)),
     Prices(Num(100), Num(100), Num(110)),
     Prices(Num(100), Num(120), Num(130)),
     Prices(Num(120), Num(100), PyNone),
     Prices(Num(120), PyNone, Num(130)),
     Dict([netPrice |-> Num(100)]),
     Dict([shownPrice |-> Num(100)]),
     Dict([netPrice |-> Num(120), shownPricePerNight |-> Num(50)]),
     Dict([netPrice |-> PyNone]),
     Dict([netPrice |-> Num(120), taxes |-> PyNone]),
     Dict([netPrice |-> Num(120), shownPrice |-> Num(100),
           netPricePerNight |-> Num(60), shownPricePerNight |-> Num(50),
           totalPricePerNight |-> Num(65),
           taxes |-> Dict([totalTaxAmount |-> Num(10)])]),
     Dict(<<>>),
     PyNone}
IncludesValues ==
    {List(<<>>),
     List(<<Inc(FREE_BREAKFAST)>>),
     List(<<Inc(<<"F", "R", "E", "E", "_", "B", "R", "E", "A", "K", "F", "A", "S", "T">>)>>),
     List(<<Inc(<<"w", "i", "f", "i">>), Inc(<<"F", "r", "e", "e", "_", "B", "r", "e", "a", "k", "f", "a", "s", "t">>)>>),
     List(<<Inc(<<"w", "i", "f", "i">>)>>),
     List(<<Inc(<<"f", "r", "e", "e", " ", "b", "r", "e", "a", "k", "f", "a", "s", "t">>)>>),
     List(<<Dict(<<>>)>>),
     List(<<Dict([id |-> PyNone])>>),
     List(<<Inc(FREE_BREAKFAST), PyNone>>),
     List(<<PyNone>>),
     PyNone}
PoliciesValues ==
    {List(<<>>),
     List(<<Policy(CANCELLATION, FreeCancel)>>),
     List(<<Policy(<<"C", "A", "N", "C", "E", "L", "L", "A", "T", "I", "O", "N">>, FreeCancel)>>),
     List(<<Policy(<<"p", "a", "y", "m", "e", "n", "t">>, FreeCancel),
            Policy(<<"C", "a", "n", "c", "e", "l", "l", "a", "t", "i", "o", "n">>, NonRefundable)>>),
     List(<<Policy(CANCELLATION, NonRefundable), Policy(CANCELLATION, FreeCancel)>>),
     List(<<Policy(<<"p", "a", "y", "m", "e", "n", "t">>, FreeCancel)>>),
     List(<<Dict([type |-> Str(CANCELLATION)])>>),
     List(<<Dict([description |-> Str(FreeCancel)])>>),
     List(<<Dict([type |-> PyNone, description |-> Str(FreeCancel)])>>),
     List(<<Policy(CANCELLATION, FreeCancel), PyNone>>),
     PyNone}
OccupancyValues ==
    {Dict([numAdults |-> Num(2)]),
     Dict([numAdults |-> PyNone, numChildren |-> Num(1)]),
     PyNone}
RateEntries ==
    {Dict(With(BaseFields, "price", v)) : v \in PriceValues}
    \cup {Dict(With(BaseFields, "includes", v)) : v \in IncludesValues}
    \cup {Dict(With(BaseFields, "policies", v)) : v \in PoliciesValues}
    \cup {Dict(With(BaseFields, "occupancy", v)) : v \in OccupancyValues}
    \cup {Dict(With(BaseFields, "currency", PyNone))}
    \cup {Dict(Without(BaseFields, key)) : key \in DOMAIN BaseFields}
    \cup {Dict(<<>>), PyNone, Str(Flex)}

BaseRate == Dict(BaseFields)
PlainRate == Dict(With(BaseFields, "price", Prices(Num(100), Num(100), Num(110))))
NullPriceRate == Dict(With(BaseFields, "price", PyNone))
MixEntries == {BaseRate, NullPriceRate}

Room(name, rate_list) == Dict([name |-> Str(name), rates |-> List(rate_list)])
Response(rooms) == Dict([data |-> Dict([rooms |-> List(rooms)])])
SeqsUpTo(S, n) == UNION {[1..k -> S] : k \in 0..n}

\* Responses with two rooms, named by the text of their body: the second room,
\* or the first, is null, or its rates are null, a number, a string or an
\* object; and one whose rooms are both sound.
RoomBodies ==
    {"room, null", "null, room", "room, rates null", "room, rates 1",
     "room, rates ab", "room, rates {a}", "room, room"}
RatesAre(v) == Dict([name |-> Str(Suite), rates |-> v])
RoomDoc(body) ==
    CASE body = "room, null" -> Response(<<Room(Deluxe, <<BaseRate>>), PyNone>>)
      [] body = "null, room" -> Response(<<PyNone, Room(Deluxe, <<BaseRate>>)>>)
      [] body = "room, rates null" ->
            Response(<<Room(Deluxe, <<BaseRate>>), RatesAre(PyNone)>>)
      [] body = "room, rates 1" ->
            Response(<<Room(Deluxe, <<BaseRate>>), RatesAre(Num(1))>>)
      [] body = "room, rates ab" ->
            Response(<<Room(Deluxe, <<BaseRate>>), RatesAre(Str(<<"a", "b">>))>>)
      [] body = "room, rates {a}" ->
            Response(<<Room(Deluxe, <<BaseRate>>), RatesAre(Dict([a |-> Num(1)]))>>)
      [] body = "room, room" ->
            Response(<<Room(Deluxe, <<BaseRate>>), Room(Suite, <<PlainRate>>)>>)
RoomDocs == {RoomDoc(body) : body \in RoomBodies}

\* Responses: every one of at most MaxRooms rooms of at most MaxRates entries
\* of MixEntries; every entry of RateEntries alone; five entries of which one
\* is malformed; and documents that are not rooms of rates.
FiveRatesDoc ==
    Response(<<Room(Deluxe, <<BaseRate, PlainRate, NullPriceRate>>),
               Room(Suite, <<PlainRate, BaseRate>>)>>)
Responses ==
    {Response(rooms) :
        rooms \in SeqsUpTo({Room(Deluxe, rate_list) :
                               rate_list \in SeqsUpTo(MixEntries, MaxRates)}, MaxRooms)}
    \cup {Response(<<Room(Suite, <<rate>>)>>) : rate \in RateEntries}
    \cup RoomDocs
    \cup {FiveRatesDoc,
          Response(<<Dict([name |-> Str(Suite), rates |-> PyNone])>>),
          Dict([data |-> PyNone]),
          Dict([data |-> Dict(<<>>)]),
          List(<<Num(1)>>)}

\* JSON documents a response body can parse to (response.json(), app.py 345).
PyTrue == [type |-> "bool", value |-> TRUE]
RatesDoc == Response(<<Room(Deluxe, <<BaseRate>>)>>)
\* One room holding one rate: shown price 1000, net price 1200, currency THB.
OneRateDoc ==
    Response(<<Room(Deluxe,
                    <<Dict([price |-> Dict([shownPrice |-> Num(1000),
                                            netPrice |-> Num(1200)]),
                            currency |-> Str(THB)])>>)>>)
EmptyDict == Dict(<<>>)
OneList == List(<<Num(1)>>)
SuccessDict == Dict([success |-> PyTrue])

\* Response bodies: the text of a 200/202 response.
Bodies == {"rates", "one rate", "{}", "[1]", "null", ""}

\* response.json(): the parsed document, or JsonError when the body is empty
\* or is not JSON.
JsonError == [type |-> "JSONDecodeError"]
ResponseJson(body) ==
    CASE body = "rates" -> RatesDoc
      [] body = "one rate" -> OneRateDoc
      [] body = "{}" -> EmptyDict
      [] body = "[1]" -> OneList
      [] body = "null" -> PyNone
      [] body \in RoomBodies -> RoomDoc(body)
      [] OTHER -> JsonError

\* ------------------------------------------------------------ date arithmetic
Digits == <<"0", "1", "2", "3", "4", "5", "6", "7", "8", "9">>
IsDigit(c) == \E i \in 1..10 : Digits[i] = c
DigitVal(c) == (CHOOSE i \in 1..10 : Digits[i] = c) - 1

NotInt == 0 - 1
RECURSIVE ParseDigits(_, _)
ParseDigits(s, acc) ==
    IF s = <<>> THEN acc
    ELSE IF ~IsDigit(Head(s)) THEN NotInt
    ELSE ParseDigits(Tail(s), acc * 10 + DigitVal(Head(s)))

\* int(s) for a string of decimal digits; NotInt stands for ValueError.
PyInt(s) == IF s = <<>> THEN NotInt ELSE ParseDigits(s, 0)

IsLeap(y) == (y % 4 = 0) /\ ((y % 100 # 0) \/ (y % 400 = 0))
DaysInMonth(y, m) ==
    IF m = 2 THEN (IF IsLeap(y) THEN 29 ELSE 28)
    ELSE IF m \in {4, 6, 9, 11} THEN 30 ELSE 31
RECURSIVE DaysBeforeMonth(_, _)
DaysBeforeMonth(y, m) ==
    IF m <= 1 THEN 0 ELSE DaysBeforeMonth(y, m - 1) + DaysInMonth(y, m - 1)
DaysBeforeYear(y) ==
    (y - 1) * 365 + ((y - 1) \div 4) - ((y - 1) \div 100) + ((y - 1) \div 400)

\* datetime(year, month, day) raises ValueError outside the calendar.
DateOk(d) ==
    LET y == PyInt(d.year)
        m == PyInt(d.month)
        dd == PyInt(d.day)
    IN  /\ y # NotInt /\ m # NotInt /\ dd # NotInt
        /\ y \in 1..9999
        /\ m \in 1..12
        /\ dd \in 1..DaysInMonth(y, m)
Ordinal(d) ==
    LET y == PyInt(d.year)
        m == PyInt(d.month)
    IN  DaysBeforeYear(y) + DaysBeforeMonth(y, m) + PyInt(d.day)

\* _calculate_nights: the day difference; it raises when a date is not valid.
NightsRaises(check_in, check_out) == ~DateOk(check_in) \/ ~DateOk(check_out)
NightsWithinYear(check_in, check_out) ==
    (DaysBeforeMonth(PyInt(check_out.year), PyInt(check_out.month)) + PyInt(check_out.day))
    - (DaysBeforeMonth(PyInt(check_in.year), PyInt(check_in.month)) + PyInt(check_in.day))
CalculateNights(check_in, check_out) == Ordinal(check_out) - Ordinal(check_in)

\* What building the payload raises, in the order the code evaluates: the
\* f-string of hotelDetailURL reads day, month, year of both dates (KeyError on
\* a missing key, app.py 250), then _calculate_nights converts and checks the
\* check-in date, then the check-out date (ValueError of int() or datetime()).
NoError == [type |-> "", msg |-> ""]
FirstMissingKey(d) ==
    IF "day" \notin DOMAIN d THEN "day"
    ELSE IF "month" \notin DOMAIN d THEN "month"
    ELSE IF "year" \notin DOMAIN d THEN "year"
    ELSE ""
DateError(d) ==
    LET y == PyInt(d.year)
        m == PyInt(d.month)
        dd == PyInt(d.day)
    IN  IF y = NotInt \/ m = NotInt \/ dd = NotInt
        THEN "invalid literal for int() with base 10"
        ELSE IF y \notin 1..9999 THEN "year is out of range"
        ELSE IF m \notin 1..12 THEN "month must be in 1..12"
        ELSE IF dd \notin 1..DaysInMonth(y, m) THEN "day is out of range for month"
        ELSE ""
BuildError(check_in, check_out) ==
    IF FirstMissingKey(check_in) # ""
    THEN [type |-> "KeyError", msg |-> FirstMissingKey(check_in)]
    ELSE IF FirstMissingKey(check_out) # ""
    THEN [type |-> "KeyError", msg |-> FirstMissingKey(check_out)]
    ELSE IF DateError(check_in) # ""
    THEN [type |-> "ValueError", msg |-> DateError(check_in)]
    ELSE IF DateError(check_out) # ""
    THEN [type |-> "ValueError", msg |-> DateError(check_out)]
    ELSE NoError

\* str.zfill(width)
NoFill(s, width) == s
RECURSIVE Zfill(_, _)
Zfill(s, width) == IF Len(s) >= width THEN s ELSE Zfill(<<"0">> \o s, width)

\* ------------------------------------------------------------------- inputs
Date(d, m, y) == [day |-> d, month |-> m, year |-> y]
Y2025 == <<"2", "0", "2", "5">>
Dec15 == Date(<<"1", "5">>, <<"1", "2">>, Y2025)
Dec16 == Date(<<"1", "6">>, <<"1", "2">>, Y2025)
Month13 == Date(<<"1", "5">>, <<"1", "3">>, Y2025)
DayX == Date(<<"x">>, <<"1", "2">>, Y2025)
Y2024 == <<"2", "0", "2", "4">>
Y2026 == <<"2", "0", "2", "6">>
Dec31 == Date(<<"3", "1">>, <<"1", "2">>, Y2025)
Jan1 == Date(<<"1">>, <<"1">>, Y2026)
Feb28 == Date(<<"2", "8">>, <<"0", "2">>, Y2024)
Mar1 == Date(<<"0", "1">>, <<"0", "3">>, Y2024)
Feb30 == Date(<<"3", "0">>, <<"2">>, Y2025)
EmptyDay == Date(<<>>, <<"1", "2">>, Y2025)
NoDay == [month |-> <<"1", "2">>, year |-> Y2025]
\* Dates that are days of the calendar, and values that are not.
ValidDates == {Dec15, Dec16, Dec31, Jan1, Feb28, Mar1}
BadDates == {Month13, DayX, Feb30, EmptyDay, NoDay}
BuildStays == (ValidDates \cup BadDates) \X (ValidDates \cup BadDates)
\* The stays callers ask for: one valid, and two with a date that is not one.
Stays == {<<Dec15, Dec16>>, <<Dec15, Month13>>, <<DayX, Dec16>>}
HotelIds == {"H1"}
NumAdults == 2

\* Proxy URLs a caller passes: one plain, one with embedded credentials.
PlainProxy == [scheme |-> "http", creds |-> FALSE, host |-> "proxy.example.com:8080"]
AuthProxy == [scheme |-> "socks5", creds |-> TRUE, host |-> "proxy.example.com:1080"]
ProxyUrls == {PlainProxy, AuthProxy}
NoProxy == [scheme |-> "", creds |-> FALSE, host |-> ""]    \* proxy_url is None

\* _mask_proxy_url: `"@" in proxy_url` raises TypeError when proxy_url is None.
MaskRaises(proxy_url) == proxy_url = NoProxy
MaskProxyUrl(proxy_url) ==
    IF proxy_url.creds
    THEN [scheme |-> proxy_url.scheme, creds |-> "***:***", host |-> proxy_url.host]
    ELSE [scheme |-> proxy_url.scheme, creds |-> "", host |-> proxy_url.host]

\* ------------------------------------------------------------------- state
VARIABLES
    elapsed,            \* time.time() - self.last_request_time
    proxy_url,          \* self.proxy_url (NoProxy for None)
    session_proxies,    \* self.session.proxies (NoProxy when empty)
    env_proxy,          \* the environment names a proxy (requests honours it)
    pc,                 \* "idle", "inflight" (a POST is out), "returned", "raised"
    attempt,            \* the loop variable of _make_request, from 0
    params,             \* the SearchParams of the current call
    sent,               \* POSTs issued by the current call
    last_outcome,       \* how the latest finished attempt of this call ended
    backoff,            \* the latest sleep of the retry loop in this call
    how,                \* how the current call ended
    exc,                \* the exception scrape raised ("" for none)
    mr_result,          \* what _make_request returned
    envelope,           \* what scrape returned
    failure_ret,        \* what _make_request last returned, by kind of failure
    since_send,         \* time since the latest POST was issued
    since_done,         \* time since the latest POST completed (response or exception)
    sendGap,            \* at the latest POST: time since the one before completed
    callGap,            \* at a call's first POST: time since the POST before it
    waf_token,          \* self.waf_token
    cookie,             \* self.session.cookies["aws-waf-token"] (NoCookie: no such key)
    sent_cookie,        \* the aws-waf-token cookie the latest POST carried
    payload,            \* the payload _build_request_payload returned to this call
    exc_msg,            \* str(e) of the exception scrape raised
    api_response,       \* the document _extract_rates is walking
    walk,               \* where _extract_rates stands: its room and rate indices
    rates,              \* the list _extract_rates is filling, then what it returned
    log,                \* the log records _extract_rates and _normalize_rate wrote
    last,               \* the rate entry just handled and what _normalize_rate returned
    link                \* the latest call of _generate_deep_link: its params, its result

vars == <<elapsed, proxy_url, session_proxies, env_proxy, pc, attempt, params,
          sent, last_outcome, backoff, how, exc, mr_result, envelope,
          failure_ret, since_send, since_done, sendGap, callGap,
          waf_token, cookie, sent_cookie, payload, exc_msg,
          api_response, walk, rates, log, last, link>>

NoOutcome == [status |-> 0, exc |-> ""]
Status(code) == [status |-> code, exc |-> ""]
Received(code, body) == [status |-> code, exc |-> "", body |-> body]
Exception(name) == [status |-> 0, exc |-> name]
NoBackoff == [after |-> 0, delay |-> 0, followed |-> FALSE]
NoParams == [hotel_id |-> "", check_in_date |-> Date(<<>>, <<>>, <<>>),
             check_out_date |-> Date(<<>>, <<>>, <<>>), num_adults |-> 0]
Missing == [kind |-> "none"]
Unset == [type |-> "unset"]

\* The status codes a response carries, and the branches of app.py 342-369.
Statuses == {200, 202, 400, 403, 404, 405, 407, 429, 500}
SuccessStatuses == {200, 202}
ElseStatuses == Statuses \ (SuccessStatuses \cup {429, 407})
PermanentStatusesWithout400 == {403, 404, 405}
PermanentStatuses == {400, 403, 404, 405}

\* Ages: an age a, d later.
AgeCap == REQUEST_DELAY
Later(a, d) == IF a = NoTime THEN NoTime ELSE IF a + d > AgeCap THEN AgeCap ELSE a + d

\* ------------------------------------------------------------------ scrape
\* _generate_deep_link: dates as year, month, day with zfill(2).
DateStr(d) == d.year \o Zfill(d.month, 2) \o Zfill(d.day, 2)
GenerateDeepLink(p) ==
    [base |-> "https://www.traveloka.com/en/hotel/search",
     hotelId |-> p.hotel_id,
     checkIn |-> DateStr(p.check_in_date),
     checkOut |-> DateStr(p.check_out_date)]

\* _build_request_payload: the fields that depend on the search.
BuildRequestPayload(p) ==
    [hotelId |-> p.hotel_id,
     checkInDate |-> p.check_in_date,
     checkOutDate |-> p.check_out_date,
     numOfNights |-> CalculateNights(p.check_in_date, p.check_out_date),
     numAdults |-> p.num_adults]

FailEnvelope(p) ==
    [success |-> FALSE,
     error |-> "Failed to retrieve data from Traveloka API",
     hotel_id |-> p.hotel_id,
     check_in |-> p.check_in_date,
     check_out |-> p.check_out_date,
     rates |-> <<>>,
     deep_link |-> GenerateDeepLink(p)]
OkEnvelope(p, response_data) ==
    [success |-> TRUE,
     hotel_id |-> p.hotel_id,
     check_in |-> p.check_in_date,
     check_out |-> p.check_out_date,
     num_adults |-> p.num_adults,
     deep_link |-> GenerateDeepLink(p),
     rates |-> ExtractRates(response_data)]
\* scrape, from the return of _make_request on.
ScrapeFailed(p, response_data) == FailEnvelope(p)
ScrapeResult(p, response_data) ==
    IF ~Truthy(response_data) THEN FailEnvelope(p) ELSE OkEnvelope(p, response_data)

\* ---------------------------------------------------------------- initial
NoCookie == [type |-> "absent"]
EmptyStr == Str(<<>>)
TokenA == Str(<<"t", "o", "k", "A">>)
TokenB == Str(<<"t", "o", "k", "B">>)
\* __init__ 117-118: the cookie is set only when the token is truthy.
CookieAlways(token) == token
CookieAtInit(token) == IF Truthy(token) THEN token ELSE NoCookie

NoWalk == [phase |-> "idle", room |-> 0, rate |-> 0]
NoLast == [rate_data |-> Unset, normalized |-> Unset]
NoLink == [params |-> Unset, deep_link |-> Unset]

\* __init__: last_request_time = 0, far behind the clock; a given proxy_url is
\* also set on the session, a given waf_token is also set as a cookie.
Constructed(proxies, envs, tokens) ==
    /\ elapsed = AgeCap
    /\ proxy_url \in proxies
    /\ session_proxies = proxy_url
    /\ env_proxy \in envs
    /\ waf_token \in tokens
    /\ cookie = CookieAtInit(waf_token)
    /\ sent_cookie = Unset
    /\ payload = Unset
    /\ exc_msg = ""
    /\ pc = "idle"
    /\ attempt = 0
    /\ params = NoParams
    /\ sent = 0
    /\ last_outcome = NoOutcome
    /\ backoff = NoBackoff
    /\ how = ""
    /\ exc = ""
    /\ mr_result = Unset
    /\ envelope = Missing
    /\ failure_ret = [exhausted |-> Unset, permanent |-> Unset]
    /\ since_send = NoTime
    /\ since_done = NoTime
    /\ sendGap = NoTime
    /\ callGap = NoTime
    /\ link = NoLink

\* _extract_rates has `doc` to walk and has not begun.
ToExtract(doc) ==
    /\ api_response = doc
    /\ walk = NoWalk
    /\ rates = <<>>
    /\ log = <<>>
    /\ last = NoLast

\* A scraper built with a token, with or without a proxy.
Init == Constructed(ProxyUrls \cup {NoProxy}, BOOLEAN, {TokenA}) /\ ToExtract(Unset)

proxyVars == <<proxy_url, session_proxies, env_proxy>>
authVars == <<waf_token, cookie>>
normVars == <<api_response, walk, rates, log, last>>

\* _respect_rate_limit: the time it sleeps.
RateLimitSleep(el) == IF el < REQUEST_DELAY THEN REQUEST_DELAY - el ELSE 0

\* scrape, up to the first session.post of _make_request: the payload is built
\* (_calculate_nights raises ValueError on a bad date, and nothing catches
\* it), the rate limit is respected, and attempt 0 is posted.
Scrape(h, ci, co) ==
    /\ pc \in {"idle", "returned", "raised"}
    /\ params' = [hotel_id |-> h, check_in_date |-> ci, check_out_date |-> co,
                  num_adults |-> NumAdults]
    /\ last_outcome' = NoOutcome
    /\ backoff' = NoBackoff
    /\ attempt' = 0
    /\ mr_result' = Unset
    /\ envelope' = Missing
    /\ IF BuildError(ci, co) # NoError
       THEN /\ pc' = "raised"
            /\ exc' = BuildError(ci, co).type
            /\ exc_msg' = BuildError(ci, co).msg
            /\ how' = "invalid_date"
            /\ sent' = 0
            /\ payload' = Unset
            /\ UNCHANGED <<elapsed, since_send, since_done, sendGap, callGap,
                           sent_cookie>>
       ELSE LET sleep == RateLimitSleep(elapsed)
            IN  /\ pc' = "inflight"
                /\ exc' = ""
                /\ exc_msg' = ""
                /\ how' = ""
                /\ sent' = 1
                /\ payload' = BuildRequestPayload(params')
                /\ sent_cookie' = cookie
                /\ elapsed' = Later(elapsed, sleep)
                /\ since_done' = Later(since_done, sleep)
                /\ sendGap' = Later(since_done, sleep)
                /\ callGap' = Later(since_send, sleep)
                /\ since_send' = 0
    /\ UNCHANGED <<failure_ret, proxyVars, authVars, normVars, link>>

ElapseStamped(responded, dur, wait) ==
    /\ elapsed' = Later(0, wait)
    /\ since_done' = Later(0, wait)
\* The attempt ended `dur` after its POST, with a response (which sets
\* last_request_time, app.py 340) or with an exception (which does not); then
\* `wait` more passed.
Elapse(responded, dur, wait) ==
    /\ elapsed' = IF responded THEN Later(0, wait) ELSE Later(elapsed, dur + wait)
    /\ since_done' = Later(0, wait)

\* The loop goes round: sleep `delay`, then post the next attempt.
Retry(outcome, responded, dur, delay) ==
    /\ pc' = "inflight"
    /\ attempt' = attempt + 1
    /\ sent' = sent + 1
    /\ last_outcome' = outcome
    /\ backoff' = [after |-> attempt + 1, delay |-> delay, followed |-> TRUE]
    /\ Elapse(responded, dur, delay)
    /\ since_send' = 0
    /\ sendGap' = Later(0, delay)
    /\ sent_cookie' = cookie
    /\ UNCHANGED <<params, how, exc, mr_result, envelope, failure_ret, callGap,
                   proxyVars, authVars, payload, exc_msg, normVars, link>>

\* _make_request returns `ret` after a last sleep of `wait`, and scrape builds
\* its envelope.
Finish(outcome, responded, dur, wait, ret, h) ==
    /\ pc' = "returned"
    /\ last_outcome' = outcome
    /\ Elapse(responded, dur, wait)
    /\ since_send' = Later(since_send, dur + wait)
    /\ mr_result' = ret
    /\ envelope' = ScrapeResult(params, ret)
    /\ how' = h
    /\ failure_ret' = IF h \in {"exhausted", "permanent"}
                      THEN [failure_ret EXCEPT ![h] = ret]
                      ELSE failure_ret
    /\ UNCHANGED <<attempt, sent, params, exc, sendGap, callGap, proxyVars,
                   authVars, sent_cookie, payload, exc_msg, normVars, link>>

\* The return after the loop (app.py 389-390).
ExhaustedMarker == Dict([error |-> PyTrue])
Exhausted == PyNone

RetryOrGiveUpEarly(outcome, responded, dur) ==
    IF attempt < MAX_RETRIES - 2
    THEN Retry(outcome, responded, dur, RETRY_DELAY)
    ELSE Finish(outcome, responded, dur, 0, Exhausted, "exhausted") /\ UNCHANGED backoff

\* The tail shared by the failures that sleep only when an attempt is left
\* (`if attempt < MAX_RETRIES - 1: time.sleep(RETRY_DELAY)`).
RetryOrGiveUp(outcome, responded, dur) ==
    IF attempt < MAX_RETRIES - 1
    THEN Retry(outcome, responded, dur, RETRY_DELAY)
    ELSE Finish(outcome, responded, dur, 0, Exhausted, "exhausted") /\ UNCHANGED backoff

\* 200 or 202: response.json(), or {"success": True} when that raises.
RespondSuccessSlept(code, body, dur) ==
    /\ pc = "inflight"
    /\ code \in SuccessStatuses
    /\ LET json == ResponseJson(body)
       IN  Finish(Received(code, body), TRUE, dur, RETRY_DELAY,
                  IF json = JsonError THEN SuccessDict ELSE json, "success")
    /\ UNCHANGED backoff
RespondSuccess(code, body, dur) ==
    /\ pc = "inflight"
    /\ code \in SuccessStatuses
    /\ LET json == ResponseJson(body)
       IN  Finish(Received(code, body), TRUE, dur, 0,
                  IF json = JsonError THEN SuccessDict ELSE json, "success")
    /\ UNCHANGED backoff

\* 429: the sleep is RETRY_DELAY * (attempt + 1), on the last attempt too.
RespondRateLimited(dur) ==
    /\ pc = "inflight"
    /\ LET delay == RETRY_DELAY * (attempt + 1)
       IN  IF attempt < MAX_RETRIES - 1
           THEN Retry(Status(429), TRUE, dur, delay)
           ELSE /\ Finish(Status(429), TRUE, dur, delay, Exhausted, "exhausted")
                /\ backoff' = [after |-> attempt + 1, delay |-> delay,
                               followed |-> FALSE]

\* 407
RespondProxyAuth(dur) ==
    /\ pc = "inflight"
    /\ RetryOrGiveUp(Status(407), TRUE, dur)

\* The else branch on 400, 403, 404, 405: return None at once.
RespondPermanent(code, dur) ==
    /\ pc = "inflight"
    /\ code \in ElseStatuses
    /\ code \in PermanentStatuses
    /\ Finish(Status(code), TRUE, dur, 0, PyNone, "permanent")
    /\ UNCHANGED backoff

\* The else branch on any other status.
RespondOther(code, dur) ==
    /\ pc = "inflight"
    /\ code \in ElseStatuses
    /\ code \notin PermanentStatuses
    /\ RetryOrGiveUp(Status(code), TRUE, dur)

\* requests.exceptions.ProxyError: the handler logs _mask_proxy_url(proxy_url),
\* which raises TypeError when proxy_url is None; the TypeError leaves
\* _make_request and scrape.
RaiseProxyError(dur) ==
    /\ pc = "inflight"
    /\ session_proxies # NoProxy \/ env_proxy
    /\ IF MaskRaises(proxy_url)
       THEN /\ pc' = "raised"
            /\ exc' = "TypeError"
            /\ exc_msg' = "argument of type 'NoneType' is not iterable"
            /\ how' = "raised"
            /\ last_outcome' = Exception("ProxyError")
            /\ Elapse(FALSE, dur, 0)
            /\ since_send' = Later(since_send, dur)
            /\ UNCHANGED <<attempt, sent, params, backoff, mr_result, envelope,
                           failure_ret, sendGap, callGap, proxyVars, authVars,
                           sent_cookie, payload, normVars, link>>
       ELSE RetryOrGiveUp(Exception("ProxyError"), FALSE, dur)

\* requests.exceptions.Timeout, TIMEOUT after the POST.
RaiseTimeout ==
    /\ pc = "inflight"
    /\ RetryOrGiveUp(Exception("Timeout"), FALSE, TIMEOUT)

\* requests.exceptions.ConnectionError
RaiseConnectionError(dur) ==
    /\ pc = "inflight"
    /\ RetryOrGiveUp(Exception("ConnectionError"), FALSE, dur)

\* Any other exception of the POST.
RaiseUnexpected(dur) ==
    /\ pc = "inflight"
    /\ RetryOrGiveUp(Exception("Exception"), FALSE, dur)

\* Time passes between two calls.
Tick ==
    /\ pc # "inflight"
    /\ elapsed' = Later(elapsed, 1)
    /\ since_send' = Later(since_send, 1)
    /\ since_done' = Later(since_done, 1)
    /\ UNCHANGED <<proxyVars, pc, attempt, params, sent, last_outcome, backoff,
                   how, exc, mr_result, envelope, failure_ret, sendGap, callGap,
                   authVars, sent_cookie, payload, exc_msg, normVars, link>>

\* change_proxy
ChangeProxy(new_proxy_url) ==
    /\ pc # "inflight"
    /\ proxy_url' = new_proxy_url
    /\ session_proxies' = new_proxy_url
    /\ UNCHANGED <<elapsed, env_proxy, pc, attempt, params, sent, last_outcome,
                   backoff, how, exc, mr_result, envelope, failure_ret,
                   since_send, since_done, sendGap, callGap,
                   authVars, sent_cookie, payload, exc_msg, normVars, link>>

\* disable_proxy
DisableProxy ==
    /\ pc # "inflight"
    /\ proxy_url' = NoProxy
    /\ session_proxies' = NoProxy
    /\ UNCHANGED <<elapsed, env_proxy, pc, attempt, params, sent, last_outcome,
                   backoff, how, exc, mr_result, envelope, failure_ret,
                   since_send, since_done, sendGap, callGap,
                   authVars, sent_cookie, payload, exc_msg, normVars, link>>

\* update_waf_token
UpdateWafToken(new_waf_token) ==
    /\ pc # "inflight"
    /\ waf_token' = new_waf_token
    /\ cookie' = new_waf_token
    /\ UNCHANGED <<elapsed, proxyVars, pc, attempt, params, sent, last_outcome,
                   backoff, how, exc, mr_result, envelope, failure_ret,
                   since_send, since_done, sendGap, callGap,
                   sent_cookie, payload, exc_msg, normVars, link>>

\* clear_waf_token
ClearWafToken ==
    /\ pc # "inflight"
    /\ cookie' = NoCookie
    /\ waf_token' = PyNone
    /\ UNCHANGED <<elapsed, proxyVars, pc, attempt, params, sent, last_outcome,
                   backoff, how, exc, mr_result, envelope, failure_ret,
                   since_send, since_done, sendGap, callGap,
                   sent_cookie, payload, exc_msg, normVars, link>>

Durations == 0..MaxDuration

Next ==
    \/ \E h \in HotelIds, stay \in Stays : Scrape(h, stay[1], stay[2])
    \/ \E code \in SuccessStatuses, body \in Bodies, dur \in Durations :
          RespondSuccess(code, body, dur)
    \/ \E dur \in Durations : RespondRateLimited(dur)
    \/ \E dur \in Durations : RespondProxyAuth(dur)
    \/ \E code \in Statuses, dur \in Durations : RespondPermanent(code, dur)
    \/ \E code \in Statuses, dur \in Durations : RespondOther(code, dur)
    \/ \E dur \in Durations : RaiseProxyError(dur)
    \/ RaiseTimeout
    \/ \E dur \in Durations : RaiseConnectionError(dur)
    \/ \E dur \in Durations : RaiseUnexpected(dur)
    \/ Tick
    \/ \E u \in ProxyUrls : ChangeProxy(u)
    \/ DisableProxy

Spec == Init /\ [][Next]_vars

\* ------------------------------------------------- the authentication token
\* A scraper built without a proxy, with no token, an empty one or a token;
\* the token is updated and cleared between calls.
InitAuth ==
    Constructed({NoProxy}, {FALSE}, {PyNone, EmptyStr, TokenA}) /\ ToExtract(Unset)
NextAuth ==
    \/ \E h \in HotelIds, stay \in Stays : Scrape(h, stay[1], stay[2])
    \/ \E code \in SuccessStatuses, body \in Bodies, dur \in Durations :
          RespondSuccess(code, body, dur)
    \/ \E code \in Statuses, dur \in Durations : RespondPermanent(code, dur)
    \/ \E code \in Statuses, dur \in Durations : RespondOther(code, dur)
    \/ \E dur \in Durations : RaiseConnectionError(dur)
    \/ \E t \in {EmptyStr, TokenB} : UpdateWafToken(t)
    \/ ClearWafToken
SpecAuth == InitAuth /\ [][NextAuth]_vars

\* ------------------------------------------------------------ the normalizer
callVars == <<elapsed, proxyVars, pc, attempt, params, sent, last_outcome, backoff,
              how, exc, mr_result, envelope, failure_ret, since_send, since_done,
              sendGap, callGap, authVars, sent_cookie, payload, exc_msg>>

NORMALIZE_LEVEL == "ERROR"
LogRecord(level, msg) == [level |-> level, msg |-> msg]
Done == [phase |-> "done", room |-> 0, rate |-> 0]

\* _extract_rates finds the rooms of the response and enters its loop.
ExtractBegin ==
    /\ walk.phase = "idle"
    /\ ~RoomsRaises(api_response)
    /\ walk' = [phase |-> "walking", room |-> 1, rate |-> 1]
    /\ rates' = <<>>
    /\ UNCHANGED <<api_response, log, last, callVars, link>>

\* An exception outside _normalize_rate (the response has no rooms to walk,
\* or the room the loop reaches has no rates to walk): the except clause
\* logs it and returns [].
ExtractRaise ==
    /\ IF walk.phase = "idle" THEN RoomsRaises(api_response)
       ELSE /\ walk.phase = "walking"
            /\ walk.room <= Len(RoomsOf(api_response))
            /\ RoomRaises(RoomsOf(api_response)[walk.room])
    /\ rates' = <<>>
    /\ log' = Append(log, LogRecord("ERROR", "Error extracting rates"))
    /\ walk' = Done
    /\ UNCHANGED <<api_response, last, callVars, link>>

\* The inner loop handles one rate entry: _normalize_rate, which logs and
\* returns None when it raises, and the append of what it returned.
NormalizeOne ==
    /\ walk.phase = "walking"
    /\ walk.room <= Len(RoomsOf(api_response))
    /\ ~RoomRaises(RoomsOf(api_response)[walk.room])
    /\ walk.rate <= Len(RateList(RoomsOf(api_response)[walk.room]))
    /\ LET room == RoomsOf(api_response)[walk.room]
           rate_data == RateList(room)[walk.rate]
           normalized_rate == NormalizeRate(RoomName(room), rate_data)
       IN  /\ rates' = IF Kept(normalized_rate)
                       THEN Append(rates, normalized_rate) ELSE rates
           /\ log' = IF NormalizeRaises(rate_data)
                     THEN Append(log, LogRecord(NORMALIZE_LEVEL, "Error normalizing rate"))
                     ELSE log
           /\ last' = [rate_data |-> rate_data, normalized |-> normalized_rate]
    /\ walk' = [walk EXCEPT !.rate = @ + 1]
    /\ UNCHANGED <<api_response, callVars, link>>

\* The outer loop moves to the next room.
NextRoom ==
    /\ walk.phase = "walking"
    /\ walk.room <= Len(RoomsOf(api_response))
    /\ ~RoomRaises(RoomsOf(api_response)[walk.room])
    /\ walk.rate > Len(RateList(RoomsOf(api_response)[walk.room]))
    /\ walk' = [phase |-> "walking", room |-> walk.room + 1, rate |-> 1]
    /\ UNCHANGED <<api_response, rates, log, last, callVars, link>>

\* The loops are over: _extract_rates logs the count and returns the list.
ExtractReturn ==
    /\ walk.phase = "walking"
    /\ walk.room > Len(RoomsOf(api_response))
    /\ log' = Append(log, LogRecord("INFO", "Extracted rates from response"))
    /\ walk' = Done
    /\ UNCHANGED <<api_response, rates, last, callVars, link>>

\* _extract_rates on every response of Responses.
InitRates ==
    /\ Constructed({NoProxy}, {FALSE}, {TokenA})
    /\ \E doc \in Responses : ToExtract(doc)
NextRates ==
    \/ ExtractBegin
    \/ ExtractRaise
    \/ NormalizeOne
    \/ NextRoom
    \/ ExtractReturn
SpecRates == InitRates /\ [][NextRates]_vars

\* ------------------------------------------------------- the request builder
\* Calls with every pair of BuildStays; each request is answered at once.
InitBuild == Constructed({NoProxy}, {FALSE}, {TokenA}) /\ ToExtract(Unset)
NextBuild ==
    \/ \E h \in HotelIds, stay \in BuildStays : Scrape(h, stay[1], stay[2])
    \/ \E code \in SuccessStatuses : RespondSuccess(code, "rates", 0)
    \/ \E code \in Statuses : RespondPermanent(code, 0)
SpecBuild == InitBuild /\ [][NextBuild]_vars

\* ------------------------------------------------------------ the deep link
\* Every string of one or two digits, as a day and as a month.
DigitStrings ==
    {<<Digits[i]>> : i \in 1..10} \cup {<<Digits[i], Digits[j]>> : i, j \in 1..10}
LinkDates ==
    {Date(d, <<"1", "2">>, Y2025) : d \in DigitStrings}
    \cup {Date(<<"5">>, m, Y2025) : m \in DigitStrings}
LinkParams ==
    {[hotel_id |-> "H1", check_in_date |-> d, check_out_date |-> Dec16] : d \in LinkDates}
    \cup {[hotel_id |-> "H1", check_in_date |-> Dec15, check_out_date |-> d] : d \in LinkDates}

\* _generate_deep_link, called between two requests: it formats its params
\* and returns the link; it assigns nothing of the scraper.
GenerateDeepLinkCall(p) ==
    /\ pc # "inflight"
    /\ link' = [params |-> p, deep_link |-> GenerateDeepLink(p)]
    /\ UNCHANGED <<callVars, normVars>>

InitLink == Constructed({NoProxy}, {FALSE}, {TokenA}) /\ ToExtract(Unset)
NextLink ==
    \/ \E p \in LinkParams : GenerateDeepLinkCall(p)
    \/ \E h \in HotelIds : Scrape(h, Dec15, Dec16)
    \/ RespondPermanent(404, 0)
SpecLink == InitLink /\ [][NextLink]_vars

\* ------------------------------------------------------- rooms that raise
\* _extract_rates on every response of RoomDocs, and scrape calls answered
\* with those responses.
InitRooms ==
    /\ Constructed({NoProxy}, {FALSE}, {TokenA})
    /\ \E doc \in RoomDocs : ToExtract(doc)
NextRooms ==
    \/ ExtractBegin
    \/ ExtractRaise
    \/ NormalizeOne
    \/ NextRoom
    \/ ExtractReturn
    \/ \E h \in HotelIds : Scrape(h, Dec15, Dec16)
    \/ \E body \in RoomBodies : RespondSuccess(200, body, 0)
SpecRooms == InitRooms /\ [][NextRooms]_vars

\* ------------------------------------------------------- last_request_time
\* Every operation of the scraper between and during calls: scrape with valid
\* and invalid dates, responses and exceptions, the passing of time, and the
\* operations on the proxy, on the token and on the deep link.
InitFrame == Constructed({PlainProxy}, {TRUE}, {TokenA}) /\ ToExtract(Unset)
NextFrame ==
    \/ \E h \in HotelIds, stay \in Stays : Scrape(h, stay[1], stay[2])
    \/ \E dur \in Durations : RespondSuccess(200, "rates", dur)
    \/ RespondRateLimited(0)
    \/ RespondPermanent(404, 0)
    \/ RespondOther(500, 0)
    \/ RaiseProxyError(0)
    \/ RaiseTimeout
    \/ \E dur \in Durations : RaiseConnectionError(dur)
    \/ RaiseUnexpected(0)
    \/ Tick
    \/ ChangeProxy(PlainProxy)
    \/ DisableProxy
    \/ UpdateWafToken(TokenB)
    \/ ClearWafToken
    \/ GenerateDeepLinkCall([hotel_id |-> "H1", check_in_date |-> Dec15,
                              check_out_date |-> Dec16])
SpecFrame == InitFrame /\ [][NextFrame]_vars

\* ------------------------------------------------------------------ claims
CallEnded == pc \in {"returned", "raised"}
TransientFailure(o) == o.exc # "" \/ o.status \in {429, 407, 500}

\* C1: an attempt that receives 400, 403, 404 or 405 ends the call at once:
\* _make_request has returned None, the call has sent no request beyond that
\* attempt (one request when it was the first attempt), and it has not slept
\* after it.
C1_PermanentAborts ==
    last_outcome.status \in {400, 403, 404, 405} =>
        /\ pc = "returned"
        /\ mr_result = PyNone
        /\ sent = attempt + 1
        /\ backoff.after <= attempt
        /\ (attempt = 0 => sent = 1 /\ backoff = NoBackoff)
\* A 404 on the first attempt.
C1_Witness ==
    /\ pc = "returned"
    /\ last_outcome = Status(404)
    /\ attempt = 0
    /\ sent = 1

\* C2: a scrape call sends at most MAX_RETRIES requests, and exactly
\* MAX_RETRIES when every attempt of the call ended in a transient failure.
C2_BoundedAttempts ==
    /\ sent <= 3
    /\ (CallEnded /\ sent >= 1 /\ TransientFailure(last_outcome)) => sent = 3

\* C3: no request is sent less than REQUEST_DELAY after the request before it
\* completed.
C3_RequestSpacing == sendGap = NoTime \/ sendGap >= 3

\* C4: the first request of a scrape call is sent at least REQUEST_DELAY after
\* the request the call before it sent.
C4_CallSpacing == callGap = NoTime \/ callGap >= 3

\* C5: the wait between failed attempt k and attempt k+1 is RETRY_DELAY * k,
\* whatever the failure.
C5_LinearBackoff == backoff.followed => backoff.delay = 5 * backoff.after

\* C6: a 200 or 202 response makes scrape return an envelope with
\* success=true, and with no rates when the body was empty or unparsable.
C6_SuccessEnvelope ==
    (pc = "returned" /\ last_outcome.status \in {200, 202}) =>
        /\ envelope # Missing
        /\ envelope.success
        /\ (mr_result = SuccessDict => envelope.rates = <<>>)

\* C7: an attempt that receives 429, 407 or another status that is neither a
\* success nor 400/403/404/405, with attempts left, is followed by the next
\* attempt of the same call; after a 407 the proxy configuration is the same.
C7_StatusRetried ==
    [][(pc = "inflight" /\ attempt < 2 /\ last_outcome'.status \in {429, 407, 500}) =>
        /\ pc' = "inflight"
        /\ attempt' = attempt + 1
        /\ sent' = sent + 1
        /\ (last_outcome'.status = 407 =>
               session_proxies' = session_proxies /\ proxy_url' = proxy_url)]_vars
\* The third attempt is out, after a 407 on the second.
C7_Witness ==
    /\ pc = "inflight"
    /\ attempt = 2
    /\ sent = 3
    /\ last_outcome = Status(407)

\* C8: an attempt that ends in a timeout, a connection error or a proxy
\* error never ends the call early: the call ends after such a failure only
\* when it has made MAX_RETRIES attempts, and then _make_request returns None.
C8_NetworkFailureRetried ==
    (CallEnded /\ last_outcome.exc # "") =>
        /\ pc = "returned"
        /\ sent = 3
        /\ mr_result = PyNone

\* C9, as claimed: what _make_request returns after exhausting its retries
\* differs from what it returns after a permanent error, and scrape answers
\* both with success=false.
C9_DistinctOutcomes ==
    /\ (failure_ret.exhausted # Unset /\ failure_ret.permanent # Unset) =>
           failure_ret.exhausted # failure_ret.permanent
    /\ (how \in {"exhausted", "permanent"} => envelope.success = FALSE)
\* C9, amended: _make_request returns None in both cases, so the two outcomes
\* are the same value, and scrape answers both with success=false.
C9_SameOutcome ==
    /\ failure_ret.exhausted \in {Unset, PyNone}
    /\ failure_ret.permanent \in {Unset, PyNone}
    /\ (how \in {"exhausted", "permanent"} =>
           mr_result = PyNone /\ envelope # Missing /\ envelope.success = FALSE)
\* A call has exhausted its retries after an earlier one met a permanent error.
C9_Witness ==
    /\ how = "exhausted"
    /\ pc = "returned"
    /\ failure_ret.permanent = PyNone
    /\ failure_ret.exhausted = PyNone

\* C10: a scrape call that fails returns an envelope with success=false, an
\* error text, the hotel id and the dates of the request, no rates and a
\* deep link.
C10_FailureEnvelope ==
    (CallEnded /\ (envelope = Missing \/ ~envelope.success)) =>
        /\ envelope # Missing
        /\ "error" \in DOMAIN envelope
        /\ envelope.hotel_id = params.hotel_id
        /\ envelope.check_in = params.check_in_date
        /\ envelope.check_out = params.check_out_date
        /\ envelope.rates = <<>>
        /\ "deep_link" \in DOMAIN envelope

CalYears == 2024..2026
LeapYears == {2024}
MonthLengths == <<31, 28, 31, 30, 31, 30, 31, 31, 30, 31, 30, 31>>
CalendarDays ==
    {t \in CalYears \X (1..12) \X (1..31) :
        t[3] <= (IF t[2] = 2 /\ t[1] \in LeapYears THEN 29 ELSE MonthLengths[t[2]])}
Before(a, b) ==
    \/ a[1] < b[1]
    \/ a[1] = b[1] /\ a[2] < b[2]
    \/ a[1] = b[1] /\ a[2] = b[2] /\ a[3] < b[3]
DaysFromTo(a, b) ==
    IF Before(b, a)
    THEN 0 - Cardinality({t \in CalendarDays : ~Before(t, b) /\ Before(t, a)})
    ELSE Cardinality({t \in CalendarDays : ~Before(t, a) /\ Before(t, b)})
AsDay(d) == <<PyInt(d.year), PyInt(d.month), PyInt(d.day)>>

\* C12: for valid check-in and check-out dates the payload's numOfNights, which
\* is what _calculate_nights returned, is the number of calendar days from
\* check-in to check-out, across month and year boundaries too: 31 December
\* to 1 January is 1 night.
C12_NightsAreDays ==
    payload # Unset =>
        /\ payload.numOfNights = DaysFromTo(AsDay(params.check_in_date),
                                            AsDay(params.check_out_date))
        /\ ((params.check_in_date = Dec31 /\ params.check_out_date = Jan1) =>
               payload.numOfNights = 1)
\* The request for 31 December 2025 to 1 January 2026 is out, with 1 night.
C12_Witness ==
    /\ pc = "inflight"
    /\ params.check_in_date = Dec31
    /\ params.check_out_date = Jan1
    /\ payload.numOfNights = 1

\* C13: no request is sent with numOfNights less than 1: a search whose
\* check-out is not after its check-in is rejected.
C13_NoShortStaySent == pc = "inflight" => payload.numOfNights >= 1

\* C14: a malformed date component makes the call fail with an "invalid date"
\* error, not with the exception of the parse, and no request is sent.
C14_InvalidDateError ==
    how = "invalid_date" =>
        /\ pc = "raised"
        /\ sent = 0
        /\ exc_msg = "invalid date"

\* What the claims call a well-formed rate entry: an object with every field,
\* each of the JSON type the normalizer reads it as.
IsStr(v) == v.type = "str"
IsInt(v) == v.type = "int"
IsList(v) == v.type = "list"
HasTyped(d, key, Ok(_)) == IF key \in d.keys THEN Ok(d.items[key]) ELSE FALSE
WellFormedInclude(inc) == IF IsDict(inc) THEN HasTyped(inc, "id", IsStr) ELSE FALSE
WellFormedPolicy(p) ==
    IF IsDict(p)
    THEN HasTyped(p, "type", IsStr) /\ HasTyped(p, "description", IsStr)
    ELSE FALSE
WellFormedPrice(price_data) ==
    IF IsDict(price_data)
    THEN /\ HasTyped(price_data, "netPrice", IsInt)
         /\ HasTyped(price_data, "shownPrice", IsInt)
         /\ HasTyped(price_data, "totalPrice", IsInt)
         /\ \A key \in price_data.keys :
               IF key = "taxes" THEN IsDict(price_data.items[key])
               ELSE IsInt(price_data.items[key])
    ELSE FALSE
WellFormedIncludes(v) ==
    IF IsList(v) THEN \A i \in 1..v.len : WellFormedInclude(v.items[i]) ELSE FALSE
WellFormedPolicies(v) ==
    IF IsList(v) THEN \A i \in 1..v.len : WellFormedPolicy(v.items[i]) ELSE FALSE
WellFormedOccupancy(v) ==
    IF IsDict(v)
    THEN HasTyped(v, "numAdults", IsInt) /\ HasTyped(v, "numChildren", IsInt)
    ELSE FALSE
WellFormedRate(rate_data) ==
    IF IsDict(rate_data)
    THEN /\ HasTyped(rate_data, "name", IsStr)
         /\ HasTyped(rate_data, "currency", IsStr)
         /\ HasTyped(rate_data, "price", WellFormedPrice)
         /\ HasTyped(rate_data, "includes", WellFormedIncludes)
         /\ HasTyped(rate_data, "policies", WellFormedPolicies)
         /\ HasTyped(rate_data, "occupancy", WellFormedOccupancy)
    ELSE FALSE
\* A malformed rate entry: it is no object, or its price is none.
MalformedRate(rate_data) ==
    IF IsDict(rate_data)
    THEN IF "price" \in rate_data.keys THEN ~IsDict(rate_data.items.price) ELSE FALSE
    ELSE TRUE
\* A response whose rooms are objects with a name and a list of rates.
SoundRoom(room) ==
    IF IsDict(room)
    THEN HasTyped(room, "name", IsStr) /\ HasTyped(room, "rates", IsList)
    ELSE FALSE
SoundRooms(doc) ==
    IF doc.type # "dict" THEN FALSE
    ELSE IF "data" \notin doc.keys THEN FALSE
    ELSE IF ~IsDict(doc.items.data) THEN FALSE
    ELSE IF "rooms" \notin doc.items.data.keys THEN FALSE
    ELSE IF ~IsList(doc.items.data.items.rooms) THEN FALSE
    ELSE \A i \in 1..doc.items.data.items.rooms.len :
            SoundRoom(doc.items.data.items.rooms.items[i])
\* The rate entries of a response with sound rooms, as room and index pairs.
EntryIds(doc) ==
    LET rooms == doc.items.data.items.rooms.items
    IN  {id \in (1..Len(rooms)) \X (1..(MaxRates + 1)) :
            id[2] <= rooms[id[1]].items.rates.len}
Entry(doc, id) == doc.items.data.items.rooms.items[id[1]].items.rates.items[id[2]]
Logged(level) == Cardinality({i \in 1..Len(log) : log[i].level = level})
Emitted == last.normalized \notin {Unset, PyNone}

\* Two strings are equal ignoring case.
SameLetter(c1, c2) ==
    c1 = c2 \/ \E i \in 1..26 : {c1, c2} = {Upper[i], LowerCase[i]}
EqualsIgnoringCase(a, b) ==
    Len(a) = Len(b) /\ \A i \in 1..Len(a) : SameLetter(a[i], b[i])

\* C15: for a response whose rooms hold N rate entries in all, every one well
\* formed, _extract_rates returns N records, each with the fields room_name,
\* rate_name, price, currency and total_price.
C15_AllWellFormedEmitted ==
    (walk.phase = "done" /\ SoundRooms(api_response)
     /\ \A id \in EntryIds(api_response) : WellFormedRate(Entry(api_response, id))) =>
        /\ Len(rates) = Cardinality(EntryIds(api_response))
        /\ \A i \in 1..Len(rates) :
              {"room_name", "rate_name", "price", "currency", "total_price"}
                  \subseteq DOMAIN rates[i]
\* Two rooms of two well-formed entries each gave four records.
C15_Witness ==
    /\ walk.phase = "done"
    /\ SoundRooms(api_response)
    /\ Cardinality(EntryIds(api_response)) = 4
    /\ \A id \in EntryIds(api_response) : WellFormedRate(Entry(api_response, id))
    /\ Len(RoomsOf(api_response)) = 2
    /\ Len(rates) = 4

\* The entry has a shown price and a net price, and the shown one is lower.
ShownBelowNet(rate_data) ==
    IF "price" \notin rate_data.keys THEN FALSE
    ELSE IF ~({"shownPrice", "netPrice"} \subseteq rate_data.items.price.keys) THEN FALSE
    ELSE rate_data.items.price.items.shownPrice.value
             < rate_data.items.price.items.netPrice.value

\* C16: the record of a rate entry whose shown price is lower than its net
\* price has price = the shown price and original_price = the net price; the
\* record of any other entry has no original_price field.
C16_DiscountFields ==
    Emitted =>
        IF ShownBelowNet(last.rate_data)
        THEN /\ last.normalized.price = last.rate_data.items.price.items.shownPrice
             /\ "original_price" \in DOMAIN last.normalized
             /\ last.normalized.original_price = last.rate_data.items.price.items.netPrice
        ELSE "original_price" \notin DOMAIN last.normalized
\* An entry shown at 100 with a net price of 120 gave price 100, original 120.
C16_Witness ==
    /\ Emitted
    /\ "original_price" \in DOMAIN last.normalized
    /\ last.normalized.price = Num(100)
    /\ last.normalized.original_price = Num(120)

\* One entry of the response is malformed and every other is well formed.
OneMalformed(doc) ==
    IF ~SoundRooms(doc) THEN FALSE
    ELSE /\ \A id \in EntryIds(doc) :
               WellFormedRate(Entry(doc, id)) \/ MalformedRate(Entry(doc, id))
         /\ Cardinality({id \in EntryIds(doc) : MalformedRate(Entry(doc, id))}) = 1

C18_NonNullFields ==
    \A i \in 1..Len(rates) :
        /\ rates[i].price # PyNone
        /\ rates[i].currency # PyNone
        /\ rates[i].total_price # PyNone

\* The policies of an accepted entry, and those of type "cancellation"
\* whatever the case of the letters.
PoliciesOf(rate_data) ==
    IF "policies" \in rate_data.keys THEN rate_data.items.policies.items ELSE <<>>
IsCancellation(p) ==
    IF ~IsDict(p) THEN FALSE
    ELSE IF "type" \notin p.keys THEN FALSE
    ELSE IF ~IsStr(p.items.type) THEN FALSE
    ELSE EqualsIgnoringCase(p.items.type.value, CANCELLATION)
CancellationAt(rate_data) ==
    {i \in 1..Len(PoliciesOf(rate_data)) : IsCancellation(PoliciesOf(rate_data)[i])}

\* C19: every record has a cancellation_policy: the description of the first
\* policies entry of type "cancellation" (in any case), and "Not specified"
\* when the policies hold no such entry.
C19_CancellationPolicy ==
    Emitted =>
        /\ "cancellation_policy" \in DOMAIN last.normalized
        /\ IF CancellationAt(last.rate_data) = {}
           THEN last.normalized.cancellation_policy = Str(NOT_SPECIFIED)
           ELSE LET first == CHOOSE i \in CancellationAt(last.rate_data) :
                                \A j \in CancellationAt(last.rate_data) : i <= j
                    p == PoliciesOf(last.rate_data)[first]
                IN  "description" \in p.keys =>
                        last.normalized.cancellation_policy = p.items.description
\* The second policy, of type "Cancellation", gave the record its description.
C19_Witness ==
    /\ Emitted
    /\ Len(PoliciesOf(last.rate_data)) = 2
    /\ CancellationAt(last.rate_data) = {2}
    /\ last.normalized.cancellation_policy = Str(NonRefundable)

\* The includes of an accepted entry that are free breakfast, whatever the
\* case of the letters.
IncludesOf(rate_data) ==
    IF "includes" \in rate_data.keys THEN rate_data.items.includes.items ELSE <<>>
IsFreeBreakfast(inc) ==
    IF ~IsDict(inc) THEN FALSE
    ELSE IF "id" \notin inc.keys THEN FALSE
    ELSE IF ~IsStr(inc.items.id) THEN FALSE
    ELSE EqualsIgnoringCase(inc.items.id.value, FREE_BREAKFAST)

\* C20: breakfast is "Included" exactly when the includes of the rate hold an
\* entry whose id is "free_breakfast" (in any case), and "Not included"
\* otherwise.
C20_Breakfast ==
    Emitted =>
        /\ "breakfast" \in DOMAIN last.normalized
        /\ IF \E i \in 1..Len(IncludesOf(last.rate_data)) :
                 IsFreeBreakfast(IncludesOf(last.rate_data)[i])
           THEN last.normalized.breakfast = Str(INCLUDED)
           ELSE last.normalized.breakfast = Str(NOT_INCLUDED)
\* The id "Free_Breakfast" after a wifi entry gave "Included".
C20_Witness ==
    /\ Emitted
    /\ Len(IncludesOf(last.rate_data)) = 2
    /\ ~IsFreeBreakfast(IncludesOf(last.rate_data)[1])
    /\ IncludesOf(last.rate_data)[2].items.id.value # FREE_BREAKFAST
    /\ last.normalized.breakfast = Str(INCLUDED)

\* The entry has no shown price: it has no price object, or one without the
\* field shownPrice.
NoShownPrice(rate_data) ==
    IF "price" \notin rate_data.keys THEN TRUE
    ELSE "shownPrice" \notin rate_data.items.price.keys
PriceFieldsOf(rate_data) ==
    IF "price" \in rate_data.keys THEN rate_data.items.price ELSE Dict(<<>>)

\* C21, as claimed: the record of a rate entry with no shown price has as its
\* price the per-night shown price when the entry has one, and the net price
\* otherwise.
C21_PerNightThenNet ==
    (Emitted /\ NoShownPrice(last.rate_data)) =>
        LET price_data == PriceFieldsOf(last.rate_data)
        IN  IF "shownPricePerNight" \in price_data.keys
            THEN last.normalized.price = price_data.items.shownPricePerNight
            ELSE "netPrice" \in price_data.keys =>
                     last.normalized.price = price_data.items.netPrice
\* C21, amended: the record of a rate entry with no shown price has the net
\* price as its price, and 0 when the entry has no net price either; a
\* per-night shown price of the entry is not used for it, it only fills the
\* per-stay field.
C21_NetPriceOnly ==
    (Emitted /\ NoShownPrice(last.rate_data)) =>
        LET price_data == PriceFieldsOf(last.rate_data)
        IN  /\ last.normalized.price =
                  (IF "netPrice" \in price_data.keys
                   THEN price_data.items.netPrice ELSE Num(0))
            /\ "original_price" \notin DOMAIN last.normalized
            /\ ("shownPricePerNight" \in price_data.keys =>
                   last.normalized.shown_price_per_stay
                       = price_data.items.shownPricePerNight)
\* An entry with a net price of 120 and a per-night shown price of 50, and no
\* shown price, gave price 120.
C21_Witness ==
    /\ Emitted
    /\ NoShownPrice(last.rate_data)
    /\ "shownPricePerNight" \in PriceFieldsOf(last.rate_data).keys
    /\ PriceFieldsOf(last.rate_data).items.shownPricePerNight = Num(50)
    /\ last.normalized.price = Num(120)

\* A string of one or two digits written with two: a one-digit string gets a
\* "0" before it.
Pad2(s) == IF Len(s) = 1 THEN <<"0", s[1]>> ELSE s
Compact(d) == d.year \o Pad2(d.month) \o Pad2(d.day)

\* C22: the link _generate_deep_link returns has the check-in and check-out
\* dates as year, month, day, month and day written with two digits, whatever
\* one- or two-digit strings they were given as; and the call sends no request
\* and changes nothing of the scraper.
C22_DeepLinkDates ==
    /\ [](link.deep_link # Unset =>
             /\ link.deep_link.checkIn = Compact(link.params.check_in_date)
             /\ link.deep_link.checkOut = Compact(link.params.check_out_date)
             /\ Len(link.deep_link.checkIn) = 8
             /\ Len(link.deep_link.checkOut) = 8)
    /\ [][link' # link => UNCHANGED <<callVars, normVars>>]_vars
\* After a call of scrape has returned, the link for day "5" of month "7" has
\* checkIn 20250705.
C22_Witness ==
    /\ pc = "returned"
    /\ sent = 1
    /\ link.params # Unset
    /\ link.params.check_in_date = Date(<<"5">>, <<"7">>, Y2025)
    /\ link.deep_link.checkIn = <<"2", "0", "2", "5", "0", "7", "0", "5">>

\* C23: the scrape for hotel "H1", 15 to 16 December 2025, 2 adults, whose
\* single request got a 200 response with one room holding one rate (shown
\* price 1000, net price 1200, currency "THB") returns success=true with
\* exactly one record, with price 1000, original_price 1200 and currency "THB".
C23_OneRateScenario ==
    (/\ pc = "returned"
     /\ params = [hotel_id |-> "H1", check_in_date |-> Dec15,
                  check_out_date |-> Dec16, num_adults |-> 2]
     /\ sent = 1
     /\ last_outcome.status = 200
     /\ mr_result = OneRateDoc) =>
        /\ envelope # Missing
        /\ envelope.success
        /\ Len(envelope.rates) = 1
        /\ envelope.rates[1].price = Num(1000)
        /\ "original_price" \in DOMAIN envelope.rates[1]
        /\ envelope.rates[1].original_price = Num(1200)
        /\ envelope.rates[1].currency = Str(THB)
\* That scrape has returned, its only request answered by that response.
C23_Witness ==
    /\ pc = "returned"
    /\ params = [hotel_id |-> "H1", check_in_date |-> Dec15,
                 check_out_date |-> Dec16, num_adults |-> 2]
    /\ sent = 1
    /\ attempt = 0
    /\ last_outcome.status = 200
    /\ mr_result = OneRateDoc
    /\ envelope.success
    /\ Len(envelope.rates) = 1

\* C24: every sleep of the retry loop is a backoff wait followed by another
\* attempt of the same call: no sleep happens after the last attempt of a
\* call, whatever the failure, 429 included. (The only other sleep of a call
\* is the rate-limit wait, which precedes its first request.)
C24_NoSleepAfterLast == backoff # NoBackoff => backoff.followed

\* C25: scrape never raises because of a transport outcome: whatever status
\* the response has and whatever exception the POST raises, with proxy_url
\* set, None or disabled, a call whose payload was built ends with
\* _make_request returning a dict or None.
C25_TransportNeverRaises ==
    (CallEnded /\ how # "invalid_date") =>
        /\ pc = "returned"
        /\ exc = ""
        /\ mr_result.type \in {"dict", "NoneType"}

\* What a body of a 200 or 202 response makes _make_request return.
FromBody(body) ==
    CASE body = "rates" -> RatesDoc
      [] body = "one rate" -> OneRateDoc
      [] body = "{}" -> EmptyDict
      [] body = "[1]" -> OneList
      [] body = "null" -> PyNone
      [] body = "" -> SuccessDict

\* C26: once an attempt of a call receives 200 or 202, the call returns at
\* that attempt: no further request is sent and no sleep follows the response,
\* and what _make_request returns is what the body of that response parses to
\* ({"success": True} for a body that does not parse), whatever the attempts
\* before it met.
C26_SuccessStopsLoop ==
    /\ []((pc = "returned" /\ last_outcome.status \in {200, 202}) =>
             /\ mr_result = FromBody(last_outcome.body)
             /\ sent = attempt + 1)
    /\ [][(pc = "inflight" /\ last_outcome'.status \in {200, 202}) =>
             /\ pc' = "returned"
             /\ sent' = sent
             /\ attempt' = attempt
             /\ backoff' = backoff
             /\ elapsed' = 0
             /\ since_done' = 0]_vars
\* The second attempt of a call received 202 after the first received 500.
C26_Witness ==
    /\ pc = "returned"
    /\ last_outcome.status = 202
    /\ attempt = 1
    /\ sent = 2
    /\ backoff.after = 1
    /\ mr_result = RatesDoc

\* C27: last_request_time is assigned only when a response is received,
\* whatever its status, and then it is the time of that response. In ages:
\* the time since last_request_time shrinks only in a step that receives a
\* response, and is then the time since that response; an attempt that ends in
\* an exception lets it grow by the time that passed; no other operation
\* makes it shrink; and it is never less than the time since the latest
\* request completed, so last_request_time never moves back.
C27_StampOnlyOnResponse ==
    /\ [](since_done # NoTime => elapsed >= since_done)
    /\ [][/\ (elapsed' < elapsed => (pc = "inflight" /\ last_outcome'.status # 0))
          /\ ((pc = "inflight" /\ last_outcome'.status # 0) =>
                 elapsed' = since_done')
          /\ ((pc = "inflight" /\ last_outcome'.exc # "" /\ pc' # "inflight") =>
                 elapsed' = Later(elapsed, since_send'))
          /\ (pc # "inflight" => elapsed' >= elapsed)]_vars
\* A call's last attempt ended at once in an exception, after a response to
\* an earlier call: the time since last_request_time is still that since the
\* response, not zero.
C27_Witness ==
    /\ pc = "returned"
    /\ last_outcome.exc = "ConnectionError"
    /\ since_done = 0
    /\ elapsed = AgeCap
    /\ failure_ret.permanent = PyNone

\* The rooms of a response whose data holds a list of rooms, and the ways a
\* room entry can be unfit: it is no object; its rates are no list; its rates
\* are nothing a loop can run over (null, a number).
RoomEntries(doc) ==
    IF doc.type # "dict" THEN <<>>
    ELSE IF "data" \notin doc.keys THEN <<>>
    ELSE IF ~IsDict(doc.items.data) THEN <<>>
    ELSE IF "rooms" \notin doc.items.data.keys THEN <<>>
    ELSE IF ~IsList(doc.items.data.items.rooms) THEN <<>>
    ELSE doc.items.data.items.rooms.items
RatesNotAList(room) ==
    IF ~IsDict(room) THEN TRUE
    ELSE IF "rates" \notin room.keys THEN FALSE
    ELSE ~IsList(room.items.rates)
RatesNotALoop(room) ==
    IF ~IsDict(room) THEN TRUE
    ELSE IF "rates" \notin room.keys THEN FALSE
    ELSE room.items.rates.type \in {"NoneType", "int", "bool"}
HasRoom(doc, Unfit(_)) ==
    \E i \in 1..Len(RoomEntries(doc)) : Unfit(RoomEntries(doc)[i])

\* C28, as claimed: when a room entry of the response is not an object, or its
\* rates value is not a list, _extract_rates returns the empty list, whatever
\* it had normalized from the other rooms, and scrape returns success=true
\* with no rates.
C28_NonListDiscards ==
    /\ (walk.phase = "done" /\ HasRoom(api_response, RatesNotAList)) =>
           rates = <<>>
    /\ (pc = "returned" /\ HasRoom(mr_result, RatesNotAList)) =>
           envelope.success /\ envelope.rates = <<>>
\* C28, amended: when a room entry of the response is not an object, or its
\* rates value is null or a number, _extract_rates logs an error and returns
\* the empty list, whatever it had normalized from the other rooms, and scrape
\* returns success=true with no rates. A rates value that is a string or an
\* object does not raise: the loop runs over its characters or keys, each is
\* rejected by _normalize_rate, and the records of the other rooms are kept.
C28_UnloopableDiscards ==
    /\ (walk.phase = "done" /\ HasRoom(api_response, RatesNotALoop)) =>
           rates = <<>> /\ Logged("ERROR") >= 1 /\ Logged("INFO") = 0
    /\ (pc = "returned" /\ HasRoom(mr_result, RatesNotALoop)) =>
           envelope.success /\ envelope.rates = <<>>
    /\ (walk.phase = "done" /\ api_response = RoomDoc("room, rates ab")) =>
           Len(rates) = 1 /\ Logged("ERROR") = 2 /\ Logged("INFO") = 1
    /\ (walk.phase = "done" /\ api_response = RoomDoc("room, rates {a}")) =>
           Len(rates) = 1 /\ Logged("ERROR") = 1 /\ Logged("INFO") = 1
    /\ (pc = "returned" /\ mr_result = RoomDoc("room, rates ab")) =>
           envelope.success /\ Len(envelope.rates) = 1
\* The first room gave a record and the second, whose rates are null, made
\* _extract_rates return the empty list; and a scrape answered with a response
\* whose second room is null returned success=true with no rates.
C28_Witness ==
    /\ walk.phase = "done"
    /\ api_response = RoomDoc("room, rates null")
    /\ Emitted
    /\ rates = <<>>
    /\ pc = "returned"
    /\ mr_result = RoomDoc("room, null")
    /\ envelope.success
    /\ envelope.rates = <<>>

\* C29: after construction and any calls of update_waf_token and
\* clear_waf_token, the session holds the aws-waf-token cookie with value v
\* exactly when waf_token is v and not None: with waf_token None there is no
\* such cookie, and otherwise the cookie is waf_token.
C29_CookieMirrorsToken ==
    IF waf_token = PyNone THEN cookie = NoCookie ELSE cookie = waf_token

====
